---- MODULE Spec2Model ----
(***************************************************************************)
(* Model of the WAV playback engine of esp_main/main/speaker.cpp:          *)
(* set_playback_speed / get_playback_speed, i2s_setup and play_wav, with   *)
(* the I2S driver, the C library (fopen/fread/calloc) and the SD card as   *)
(* nondeterministic collaborators.                                         *)
(*                                                                         *)
(* Single-precision values are modelled exactly.  A finite playback speed  *)
(* is a number of sixteenths (v/16, exactly representable as a float); a   *)
(* frame position or skip ratio is a binary fixed-point pair <<I, F>>      *)
(* standing for I + F/2^23, rounded to 24 significant bits after every     *)
(* operation the way IEEE-754 round-to-nearest-even does.                  *)
(***************************************************************************)
EXTENDS Integers, Sequences, FiniteSets, TLC

(* ---------------------------------------------------------------------- *)
(* Program constants                                                       *)
(* ---------------------------------------------------------------------- *)
AUDIO_BUFFER == 2048
I2S_PDM_MIN_RATE == 8000
I2S_PDM_MAX_RATE == 48000
WAV_HEADER_BYTES == 44

(* esp_err_t values returned by play_wav *)
ESP_OK == "ESP_OK"
ESP_FAIL == "ESP_FAIL"
ESP_ERR_INVALID_ARG == "ESP_ERR_INVALID_ARG"
ESP_ERR_NOT_SUPPORTED == "ESP_ERR_NOT_SUPPORTED"
ESP_ERR_NO_MEM == "ESP_ERR_NO_MEM"
NO_RESULT == "none"

NULL == 0

(* ---------------------------------------------------------------------- *)
(* Bounds of the model                                                     *)
(* ---------------------------------------------------------------------- *)
\* payloads of 0..MaxSmallPayload samples are all explored
MaxSmallPayload == 13
\* number of I2S controllers the driver can hand out before
\* i2s_new_channel fails
MaxChannels == 2
\* largest finite argument (in sixteenths) passed to set_playback_speed
MaxSpeedArg == 80

(* ---------------------------------------------------------------------- *)
(* Single-precision arithmetic                                             *)
(* ---------------------------------------------------------------------- *)
Pow2(n) == 2 ^ n

FRAC_BITS == 23
FRAC_ONE == Pow2(FRAC_BITS)
MANT_LIMIT == Pow2(24)

RECURSIVE BitLen(_)
BitLen(x) == IF x = 0 THEN 0 ELSE 1 + BitLen(x \div 2)

\* (float)x for a non-negative integer x: x rounded to 24 significant bits,
\* ties to even
RoundInt24(x) ==
    IF x < MANT_LIMIT THEN x
    ELSE LET u == Pow2(BitLen(x) - 24)
             q == x \div u
             r == x % u
             up == (2 * r > u) \/ (2 * r = u /\ q % 2 = 1)
         IN  (IF up THEN q + 1 ELSE q) * u

\* I + F/2^23 + (tail below 2^-23) rounded to 24 significant bits, for
\* I >= 1.  tail: 0 = nothing below 2^-23, 1 = less than half of 2^-23,
\* 2 = exactly half, 3 = more than half.
RoundFix(I, F, tail) ==
    LET d == BitLen(I) - 1
        u == Pow2(d)
        q == F \div u
        r == F % u
        up == IF d = 0
              THEN tail = 3 \/ (tail = 2 /\ q % 2 = 1)
              ELSE \/ 2 * r > u
                   \/ 2 * r = u /\ (tail > 0 \/ q % 2 = 1)
        F2 == (IF up THEN q + 1 ELSE q) * u
    IN  IF F2 = FRAC_ONE THEN <<I + 1, 0>> ELSE <<I, F2>>

F32Zero == <<0, 0>>
F32One == <<1, 0>>

\* a + b in single precision; a, b >= 0, and a is 0 or >= 1, b >= 1
F32Add(a, b) ==
    LET s == a[2] + b[2]
        I == a[1] + b[1] + s \div FRAC_ONE
        F == s % FRAC_ONE
    IN  RoundFix(I, F, 0)

\* the first n binary digits of rem/den (0 <= rem < den) and the remainder
RECURSIVE FracDigits(_, _, _, _)
FracDigits(rem, den, n, acc) ==
    IF n = 0 THEN <<acc, rem>>
    ELSE FracDigits((2 * rem) % den, den, n - 1,
                    2 * acc + (2 * rem) \div den)

\* (float)num / den in single precision, for num >= den > 0
F32Div(num, den) ==
    LET x == RoundInt24(num)
        I == x \div den
        fd == FracDigits(x % den, den, FRAC_BITS, 0)
        rest == fd[2]
        tail == IF rest = 0 THEN 0
                ELSE IF 2 * rest < den THEN 1
                ELSE IF 2 * rest = den THEN 2 ELSE 3
    IN  RoundFix(I, fd[1], tail)

\* a < (float)n for a non-negative integer n < 2^24
F32LessInt(a, n) == a[1] < n

\* (size_t)a : truncation toward zero
F32Trunc(a) == a[1]

\* a > 1.0f
F32GreaterOne(a) == a[1] > 1 \/ (a[1] = 1 /\ a[2] > 0)

(* ---------------------------------------------------------------------- *)
(* Float arguments and the stored playback speed                           *)
(* ---------------------------------------------------------------------- *)
Fin(v) == [kind |-> "fin", v |-> v]
NaN == [kind |-> "nan", v |-> 0]
PosInf == [kind |-> "pinf", v |-> 0]
NegInf == [kind |-> "ninf", v |-> 0]

\* sixteenths
SPEED_UNIT == Pow2(4)
SPEED_DEFAULT == Fin(SPEED_UNIT)
SPEED_MAX == Fin(4 * SPEED_UNIT)
SPEED_MIN == Fin(SPEED_UNIT \div 4)

\* speed <= 0.0f, speed > 4.0f, speed < 0.25f; every comparison with NaN
\* is false
FloatLeqZero(s) == s.kind = "ninf" \/ (s.kind = "fin" /\ s.v <= 0)
FloatGtMax(s) == s.kind = "pinf" \/ (s.kind = "fin" /\ s.v > SPEED_MAX.v)
FloatLtMin(s) == s.kind = "ninf" \/ (s.kind = "fin" /\ s.v < SPEED_MIN.v)

\* every float argument of the model: the sixteenths up to MaxSpeedArg in
\* magnitude, the infinities and NaN
SpeedArgs ==
    {Fin(v) : v \in (-MaxSpeedArg)..MaxSpeedArg} \cup {NaN, PosInf, NegInf}

\* the arguments used while play_wav runs: 0.25, 1.0, 1.5, 3.0, 3.25 and NaN
PlaySpeedArgs == {Fin(v) : v \in {4, 16, 24, 48, 52}} \cup {NaN}

\* the setter without its "invalid, use 1.0" branch
ClampSpeedNoDefault(speed) ==
    IF FloatGtMax(speed) THEN SPEED_MAX
    ELSE IF FloatLtMin(speed) THEN SPEED_MIN
    ELSE speed

\* the value set_playback_speed stores
ClampSpeed(speed) ==
    IF FloatLeqZero(speed) THEN SPEED_DEFAULT
    ELSE IF FloatGtMax(speed) THEN SPEED_MAX
    ELSE IF FloatLtMin(speed) THEN SPEED_MIN
    ELSE speed

(* ---------------------------------------------------------------------- *)
(* The source files play_wav is given                                      *)
(* ---------------------------------------------------------------------- *)
\* header sample rates (bytes 24..27) played with every payload length
Rates == {11025, 16000, 22050}

\* header sample rates at the ends of the range: an empty field and the
\* highest common rate
EdgeRates == {0, 192000}

WavFile(ex, nbytes, ch, rate, bits) ==
    [exists |-> ex, bytes |-> nbytes, channels |-> ch, rate |-> rate,
     bits |-> bits]

\* a well-formed 16-bit file with len payload samples and odd trailing bytes
PcmFile(ch, rate, len, odd) ==
    WavFile(TRUE, WAV_HEADER_BYTES + 2 * len + odd, ch, rate, 16)

Files ==
    {WavFile(FALSE, 0, 0, 0, 0)}
    \cup {WavFile(TRUE, n, 1, 44100, 16) : n \in {0, 30, WAV_HEADER_BYTES - 1}}
    \cup {WavFile(TRUE, WAV_HEADER_BYTES + 8, 2, 44100, b) : b \in {8, 24}}
    \cup {PcmFile(1, r, n, 0) : r \in Rates, n \in 0..MaxSmallPayload}
    \cup {PcmFile(2, 44100, 3, 1)}
    \cup {PcmFile(1, r, 2, 0) : r \in EdgeRates}
    \cup {PcmFile(2, 44100, AUDIO_BUFFER + 1, 0)}

\* number of whole 16-bit samples after the header
PayloadLen(f) ==
    IF f.bytes <= WAV_HEADER_BYTES THEN 0
    ELSE (f.bytes - WAV_HEADER_BYTES) \div 2

\* the i-th payload sample (0-based); every sample carries its own position
\* so that a copy, a drop or a duplication is visible
SampleAt(i) == i + 1

\* fread(buf, sizeof(int16_t), AUDIO_BUFFER, fh): number of items delivered
\* from sample position pos
FreadCount(f, pos) ==
    IF PayloadLen(f) - pos < AUDIO_BUFFER THEN PayloadLen(f) - pos
    ELSE AUDIO_BUFFER

(* ---------------------------------------------------------------------- *)
(* The sample buffer: buf holds the elements written so far, every element *)
(* behind them still has the zero calloc put there                         *)
(* ---------------------------------------------------------------------- *)
BufGet(b, i) == IF i < Len(b) THEN b[i + 1] ELSE 0

BufSet(b, i, v) ==
    IF i < Len(b) THEN [b EXCEPT ![i + 1] = v]
    ELSE b \o [k \in 1..(i - Len(b)) |-> 0] \o <<v>>

\* buf after fread delivered n items from sample position pos
BufFill(b, pos, n) ==
    [k \in 1..(IF Len(b) > n THEN Len(b) ELSE n) |->
        IF k <= n THEN SampleAt(pos + k - 1) ELSE b[k]]

\* the first n elements of buf
BufPrefix(b, n) == [k \in 1..n |-> BufGet(b, k - 1)]

(* ---------------------------------------------------------------------- *)
(* Rate plan (play_wav, lines 153-173)                                     *)
(* ---------------------------------------------------------------------- *)
\* outcomes of converting a NaN product to uint32_t (undefined behaviour)
UndefinedRates == {0, 16777217}

\* the conversion rounding to the nearest integer instead of truncating
AdjustedRatesRounded(sample_rate, speed) ==
    IF speed.kind = "fin"
    THEN {(RoundInt24(RoundInt24(sample_rate) * speed.v) + SPEED_UNIT \div 2)
             \div SPEED_UNIT}
    ELSE UndefinedRates

\* (uint32_t)(sample_rate * playback_speed): the product is rounded to
\* single precision and the conversion truncates
AdjustedRates(sample_rate, speed) ==
    IF speed.kind = "fin"
    THEN {RoundInt24(RoundInt24(sample_rate) * speed.v) \div SPEED_UNIT}
    ELSE UndefinedRates

\* the clamp without its lower branch
SinkRateNoMin(adjusted) ==
    IF adjusted > I2S_PDM_MAX_RATE THEN I2S_PDM_MAX_RATE ELSE adjusted

\* the rate handed to i2s_setup
SinkRate(adjusted) ==
    IF adjusted > I2S_PDM_MAX_RATE THEN I2S_PDM_MAX_RATE
    ELSE IF adjusted < I2S_PDM_MIN_RATE THEN I2S_PDM_MIN_RATE
    ELSE adjusted

\* the ratio computed without the (float) cast, as an integer quotient
SkipRatioIntDiv(adjusted) ==
    IF adjusted > I2S_PDM_MAX_RATE
    THEN <<adjusted \div I2S_PDM_MAX_RATE, 0>>
    ELSE F32One

\* frame_skip_ratio
SkipRatio(adjusted) ==
    IF adjusted > I2S_PDM_MAX_RATE THEN F32Div(adjusted, I2S_PDM_MAX_RATE)
    ELSE F32One

(* ---------------------------------------------------------------------- *)
(* State                                                                   *)
(* ---------------------------------------------------------------------- *)
VARIABLES
    playback_speed,        \* static float playback_speed
    tx_handle,             \* static i2s_chan_handle_t tx_handle (NULL or id)
    liveChans,             \* channels the I2S driver has allocated
    chState,               \* driver state of every allocated channel
    pc,                    \* position of the task inside play_wav
    ret,                   \* value of the last return of play_wav
    file,                  \* the file behind fp
    sd_ok,                 \* sd_card_init() returned ESP_OK in this call
    fhOpen,                \* fh is open
    fhPos,                 \* payload samples consumed through fh
    sample_rate,           \* header field
    bits_per_sample,       \* header field
    channels,              \* header field
    adjusted_sample_rate,
    frame_skip_ratio,
    buf,                   \* the sample buffer (empty before calloc)
    bytes_read,
    frame_position,
    samples_to_process,
    samples_to_write,
    samples_skipped,
    samples_played,
    speed_arg,             \* argument of the last set_playback_speed call
    startSpeed,            \* playback_speed when play_wav was entered,
                           \* kept until the rate plan is handed on
    planSpeed,             \* playback_speed as read by the rate plan
    planDone,              \* the rate plan of this session was computed
    sessChans,             \* channels created by this session
    sinkRate,              \* rate the channel of this session was set to
    chunkStart,            \* sample position the current chunk was read at
    chunkLen,              \* items fread delivered for the current chunk
    sinkData,              \* samples the sink accepted in this session
    writeFailed,           \* i2s_channel_write failed in this session
    ioAfterFail,           \* reads and writes after the failed write
    sinkOps                \* driver operations done on the channel of this
                           \* session, in call order (repeated writes once)

driverVars == <<liveChans, chState>>
headerVars == <<sample_rate, bits_per_sample, channels>>
planVars == <<adjusted_sample_rate, frame_skip_ratio, planSpeed, planDone>>
loopVars == <<bytes_read, frame_position, samples_to_process,
              samples_to_write, samples_skipped, samples_played>>
chunkVars == <<chunkStart, chunkLen>>
sinkVars == <<sinkData, writeFailed, ioAfterFail>>
fileVars == <<file, fhOpen, fhPos, sd_ok>>

vars == <<playback_speed, tx_handle, liveChans, chState, pc, ret,
          file, sd_ok, fhOpen, fhPos, sample_rate, bits_per_sample, channels,
          adjusted_sample_rate, frame_skip_ratio, buf, bytes_read,
          frame_position, samples_to_process, samples_to_write,
          samples_skipped, samples_played, speed_arg, startSpeed, planSpeed,
          planDone,
          sessChans, sinkRate, chunkStart, chunkLen, sinkData, writeFailed,
          ioAfterFail, sinkOps>>

NoFile == WavFile(FALSE, 0, 0, 0, 0)
NoArg == [kind |-> "none", v |-> 0]
ChanIds == 1..MaxChannels

Init ==
    /\ playback_speed = SPEED_DEFAULT
    /\ tx_handle = NULL
    /\ liveChans = {}
    /\ chState = [c \in ChanIds |-> "free"]
    /\ pc = "idle"
    /\ ret = NO_RESULT
    /\ file = NoFile
    /\ sd_ok = FALSE
    /\ fhOpen = FALSE
    /\ fhPos = 0
    /\ sample_rate = 0
    /\ bits_per_sample = 0
    /\ channels = 0
    /\ adjusted_sample_rate = 0
    /\ frame_skip_ratio = F32One
    /\ buf = <<>>
    /\ bytes_read = 0
    /\ frame_position = F32Zero
    /\ samples_to_process = 0
    /\ samples_to_write = 0
    /\ samples_skipped = 0
    /\ samples_played = 0
    /\ speed_arg = NoArg
    /\ startSpeed = NoArg
    /\ planSpeed = NoArg
    /\ planDone = FALSE
    /\ sessChans = 0
    /\ sinkRate = 0
    /\ chunkStart = 0
    /\ chunkLen = 0
    /\ sinkData = <<>>
    /\ writeFailed = FALSE
    /\ ioAfterFail = 0
    /\ sinkOps = <<>>

(* ---------------------------------------------------------------------- *)
(* set_playback_speed / get_playback_speed                                 *)
(* ---------------------------------------------------------------------- *)
set_playback_speed(speed) ==
    /\ playback_speed' = ClampSpeed(speed)
    /\ speed_arg' = speed
    /\ UNCHANGED <<startSpeed, tx_handle, driverVars, pc, ret, fileVars,
                   headerVars, planVars, buf, loopVars, sessChans, sinkRate,
                   chunkVars, sinkVars, sinkOps>>

get_playback_speed == playback_speed

\* a call from any task, at any point of a playback
SetSpeed == \E speed \in PlaySpeedArgs : set_playback_speed(speed)

\* a call with any argument
SetAnySpeed == \E speed \in SpeedArgs : set_playback_speed(speed)

(* ---------------------------------------------------------------------- *)
(* play_wav                                                                *)
(* ---------------------------------------------------------------------- *)
\* the locals of a fresh call
FreshLocals ==
    /\ sample_rate' = 0
    /\ bits_per_sample' = 0
    /\ channels' = 0
    /\ adjusted_sample_rate' = 0
    /\ frame_skip_ratio' = F32One
    /\ buf' = <<>>
    /\ bytes_read' = 0
    /\ frame_position' = F32Zero
    /\ samples_to_process' = 0
    /\ samples_to_write' = 0
    /\ samples_skipped' = 0
    /\ samples_played' = 0
    /\ planSpeed' = NoArg
    /\ planDone' = FALSE
    /\ sessChans' = 0
    /\ sinkRate' = 0
    /\ chunkStart' = 0
    /\ chunkLen' = 0
    /\ sinkData' = <<>>
    /\ writeFailed' = FALSE
    /\ ioAfterFail' = 0
    /\ sinkOps' = <<>>
    /\ fhOpen' = FALSE
    /\ fhPos' = 0

\* speaker_main calls play_wav(WAV_FILE); sd_card_init() succeeds or not
Play_Call ==
    /\ pc = "idle"
    /\ \E f \in Files, mounted \in BOOLEAN :
          /\ file' = f
          /\ sd_ok' = mounted
          /\ IF mounted
             THEN pc' = "open" /\ ret' = NO_RESULT
             ELSE pc' = "done" /\ ret' = ESP_FAIL
    /\ startSpeed' = playback_speed
    /\ FreshLocals
    /\ UNCHANGED <<playback_speed, speed_arg, tx_handle, driverVars>>

\* fopen(fp, "rb")
Play_Open ==
    /\ pc = "open"
    /\ IF file.exists
       THEN /\ fhOpen' = TRUE
            /\ pc' = "header"
            /\ ret' = ret
       ELSE /\ fhOpen' = FALSE
            /\ pc' = "done"
            /\ ret' = ESP_ERR_INVALID_ARG
    /\ UNCHANGED <<playback_speed, speed_arg, startSpeed, tx_handle,
                   driverVars, file, sd_ok, fhPos, headerVars, planVars, buf,
                   loopVars, sessChans, sinkRate, chunkVars, sinkVars,
                   sinkOps>>

\* the header stage without the bit depth check
HeaderResultAnyDepth(f) ==
    IF f.bytes < WAV_HEADER_BYTES THEN ESP_FAIL ELSE ESP_OK

\* what the header stage returns: ESP_FAIL for a short header,
\* ESP_ERR_NOT_SUPPORTED for a depth other than 16, else it goes on
HeaderResult(f) ==
    IF f.bytes < WAV_HEADER_BYTES THEN ESP_FAIL
    ELSE IF f.bits # 16 THEN ESP_ERR_NOT_SUPPORTED
    ELSE ESP_OK

\* fread of the 44 header bytes, the header fields, the bit depth check
Play_Header ==
    /\ pc = "header"
    /\ IF file.bytes < WAV_HEADER_BYTES
       THEN UNCHANGED headerVars
       ELSE /\ channels' = file.channels
            /\ sample_rate' = file.rate
            /\ bits_per_sample' = file.bits
    /\ IF HeaderResult(file) = ESP_OK
       THEN /\ pc' = "plan"
            /\ UNCHANGED <<fhOpen, ret>>
       ELSE /\ fhOpen' = FALSE
            /\ pc' = "done"
            /\ ret' = HeaderResult(file)
    /\ UNCHANGED <<playback_speed, speed_arg, startSpeed, tx_handle,
                   driverVars, file, fhPos, sd_ok, planVars, buf, loopVars,
                   sessChans, sinkRate, chunkVars, sinkVars, sinkOps>>

\* adjusted_sample_rate and frame_skip_ratio from the stored speed
Play_RatePlan ==
    /\ pc = "plan"
    /\ \E adjusted \in AdjustedRates(sample_rate, playback_speed) :
          /\ adjusted_sample_rate' = SinkRate(adjusted)
          /\ frame_skip_ratio' = SkipRatio(adjusted)
    /\ planSpeed' = playback_speed
    /\ planDone' = TRUE
    /\ pc' = "setup"
    /\ UNCHANGED <<playback_speed, speed_arg, startSpeed, tx_handle,
                   driverVars, ret, fileVars, headerVars, buf, loopVars,
                   sessChans, sinkRate, chunkVars, sinkVars, sinkOps>>

\* the log of driver operations after op; a run of writes is logged once
SinkOp(log, op) ==
    IF op = "write" /\ Len(log) > 0 /\ log[Len(log)] = "write" THEN log
    ELSE Append(log, op)

\* the port I2S_NUM_AUTO picks
FreePort == CHOOSE c \in ChanIds \ liveChans :
                \A d \in ChanIds \ liveChans : c <= d

\* ESP_ERROR_CHECK(i2s_setup(adjusted_sample_rate, mode)): a stale handle is
\* dropped, i2s_new_channel and i2s_channel_init_pdm_tx_mode succeed or the
\* program aborts
Play_Setup ==
    /\ pc = "setup"
    /\ startSpeed' = NoArg
    /\ \E new_ok \in BOOLEAN, init_ok \in BOOLEAN :
          IF liveChans = ChanIds \/ ~new_ok
          THEN /\ tx_handle' = NULL
               /\ pc' = "aborted"
               /\ UNCHANGED <<driverVars, sessChans, sinkRate, sinkOps>>
          ELSE /\ tx_handle' = FreePort
               /\ liveChans' = liveChans \cup {FreePort}
               /\ sessChans' = sessChans + 1
               /\ IF init_ok
                  THEN /\ chState' = [chState EXCEPT ![FreePort] = "ready"]
                       /\ sinkRate' = adjusted_sample_rate
                       /\ sinkOps' = SinkOp(SinkOp(sinkOps, "create"),
                                            "configure")
                       /\ pc' = "alloc"
                  ELSE /\ chState' = [chState EXCEPT
                                         ![FreePort] = "registered"]
                       /\ sinkRate' = sinkRate
                       /\ sinkOps' = SinkOp(sinkOps, "create")
                       /\ pc' = "aborted"
    /\ UNCHANGED <<playback_speed, speed_arg, ret, fileVars,
                   headerVars, planVars, buf, loopVars, chunkVars, sinkVars>>

\* calloc(AUDIO_BUFFER, sizeof(int16_t))
Play_Alloc ==
    /\ pc = "alloc"
    /\ \E mem_ok \in BOOLEAN :
          IF mem_ok
          THEN /\ pc' = "first_read"
               /\ UNCHANGED <<ret, fhOpen>>
          ELSE /\ fhOpen' = FALSE
               /\ pc' = "done"
               /\ ret' = ESP_ERR_NO_MEM
    /\ buf' = <<>>
    /\ UNCHANGED <<playback_speed, speed_arg, startSpeed, tx_handle,
                   driverVars, file, sd_ok, fhPos, headerVars, planVars,
                   loopVars, sessChans, sinkRate, chunkVars, sinkVars,
                   sinkOps>>

\* bytes_read = fread(buf, sizeof(int16_t), AUDIO_BUFFER, fh)
Fread ==
    LET n == FreadCount(file, fhPos)
    IN  /\ bytes_read' = n
        /\ buf' = BufFill(buf, fhPos, n)
        /\ chunkStart' = fhPos
        /\ chunkLen' = n
        /\ fhPos' = fhPos + n
        /\ ioAfterFail' = IF writeFailed THEN ioAfterFail + 1
                          ELSE ioAfterFail

Play_FirstRead ==
    /\ pc = "first_read"
    /\ Fread
    /\ pc' = "enable"
    /\ UNCHANGED <<playback_speed, speed_arg, startSpeed, tx_handle,
                   driverVars, ret, file, sd_ok, fhOpen, headerVars, planVars,
                   frame_position, samples_to_process, samples_to_write,
                   samples_skipped, samples_played, sessChans, sinkRate,
                   sinkData, writeFailed, sinkOps>>

\* ESP_ERROR_CHECK(i2s_channel_enable(tx_handle))
Play_Enable ==
    /\ pc = "enable"
    /\ IF tx_handle # NULL /\ chState[tx_handle] = "ready"
       THEN /\ chState' = [chState EXCEPT ![tx_handle] = "running"]
            /\ sinkOps' = SinkOp(sinkOps, "enable")
            /\ pc' = "loop"
       ELSE /\ chState' = chState
            /\ sinkOps' = sinkOps
            /\ pc' = "aborted"
    /\ UNCHANGED <<playback_speed, speed_arg, startSpeed, tx_handle,
                   liveChans, ret, fileVars, headerVars, planVars, buf,
                   loopVars, sessChans, sinkRate, chunkVars, sinkVars>>

\* the loop head computing the skip ratio again from playback_speed for
\* every chunk
Play_LoopTestRereadsSpeed ==
    /\ pc = "loop"
    /\ \E adjusted \in AdjustedRates(sample_rate, playback_speed) :
          /\ frame_skip_ratio' = SkipRatio(adjusted)
          /\ IF bytes_read > 0
             THEN IF F32GreaterOne(SkipRatio(adjusted))
                  THEN /\ samples_to_process' = bytes_read
                       /\ samples_to_write' = 0
                       /\ frame_position' = F32Zero
                       /\ pc' = "decimate"
                  ELSE /\ pc' = "write"
                       /\ UNCHANGED <<samples_to_process, samples_to_write,
                                      frame_position>>
             ELSE /\ pc' = "disable"
                  /\ UNCHANGED <<samples_to_process, samples_to_write,
                                 frame_position>>
    /\ UNCHANGED <<playback_speed, speed_arg, startSpeed, tx_handle,
                   driverVars, ret, fileVars, headerVars,
                   adjusted_sample_rate, planSpeed, planDone, buf,
                   bytes_read, samples_skipped, samples_played, sessChans,
                   sinkRate, chunkVars, sinkVars, sinkOps>>

\* while (bytes_read > 0), and the start of the frame skipping of a chunk
Play_LoopTest ==
    /\ pc = "loop"
    /\ IF bytes_read > 0
       THEN IF F32GreaterOne(frame_skip_ratio)
            THEN /\ samples_to_process' = bytes_read
                 /\ samples_to_write' = 0
                 /\ frame_position' = F32Zero
                 /\ pc' = "decimate"
            ELSE /\ pc' = "write"
                 /\ UNCHANGED <<samples_to_process, samples_to_write,
                                frame_position>>
       ELSE /\ pc' = "disable"
            /\ UNCHANGED <<samples_to_process, samples_to_write,
                           frame_position>>
    /\ UNCHANGED <<playback_speed, speed_arg, startSpeed, tx_handle,
                   driverVars, ret, fileVars, headerVars, planVars, buf,
                   bytes_read, samples_skipped, samples_played, sessChans,
                   sinkRate, chunkVars, sinkVars, sinkOps>>

\* one iteration of while (frame_position < samples_to_process)
Play_DecimateStep ==
    /\ pc = "decimate"
    /\ F32LessInt(frame_position, samples_to_process)
    /\ LET input_index == F32Trunc(frame_position)
       IN  IF input_index < samples_to_process
           THEN /\ buf' = BufSet(buf, samples_to_write,
                                 BufGet(buf, input_index))
                /\ samples_to_write' = samples_to_write + 1
           ELSE UNCHANGED <<buf, samples_to_write>>
    /\ frame_position' = F32Add(frame_position, frame_skip_ratio)
    /\ UNCHANGED <<playback_speed, speed_arg, startSpeed, tx_handle,
                   driverVars, pc, ret, fileVars, headerVars, planVars,
                   bytes_read, samples_to_process, samples_skipped,
                   samples_played, sessChans, sinkRate, chunkVars, sinkVars,
                   sinkOps>>

\* the loop is left; the counters and bytes_read are updated
Play_DecimateDone ==
    /\ pc = "decimate"
    /\ ~F32LessInt(frame_position, samples_to_process)
    /\ samples_skipped' = samples_skipped
                          + (samples_to_process - samples_to_write)
    /\ samples_played' = samples_played + samples_to_write
    /\ bytes_read' = samples_to_write
    /\ pc' = "write"
    /\ UNCHANGED <<playback_speed, speed_arg, startSpeed, tx_handle,
                   driverVars, ret, fileVars, headerVars, planVars, buf,
                   frame_position, samples_to_process, samples_to_write,
                   sessChans, sinkRate, chunkVars, sinkVars, sinkOps>>

\* a write of the whole buffer, whatever fread delivered
WriteDataWholeBuffer(b, n) == BufPrefix(b, AUDIO_BUFFER)

\* the samples i2s_channel_write is handed
WriteData(b, n) == BufPrefix(b, n)

\* i2s_channel_write(tx_handle, buf, bytes_read * sizeof(int16_t), ...): the
\* sink takes the whole chunk, or fails having taken none or half of it
Play_Write ==
    /\ pc = "write"
    /\ \E write_ok \in BOOLEAN, taken \in {0, bytes_read \div 2} :
          IF /\ write_ok
             /\ tx_handle # NULL
             /\ chState[tx_handle] = "running"
          THEN /\ taken = 0
               /\ sinkData' = sinkData \o WriteData(buf, bytes_read)
               /\ writeFailed' = writeFailed
               /\ pc' = "read"
          ELSE /\ ~write_ok
               /\ sinkData' = sinkData
                              \o SubSeq(WriteData(buf, bytes_read), 1, taken)
               /\ writeFailed' = TRUE
               /\ pc' = "disable"
    /\ sinkOps' = SinkOp(sinkOps, "write")
    /\ ioAfterFail' = IF writeFailed THEN ioAfterFail + 1 ELSE ioAfterFail
    /\ UNCHANGED <<playback_speed, speed_arg, startSpeed, tx_handle,
                   driverVars, ret, fileVars, headerVars, planVars, buf,
                   loopVars, sessChans, sinkRate, chunkVars>>

\* the read at the end of the loop body
Play_NextRead ==
    /\ pc = "read"
    /\ Fread
    /\ pc' = "loop"
    /\ UNCHANGED <<playback_speed, speed_arg, startSpeed, tx_handle,
                   driverVars, ret, file, sd_ok, fhOpen, headerVars, planVars,
                   frame_position, samples_to_process, samples_to_write,
                   samples_skipped, samples_played, sessChans, sinkRate,
                   sinkData, writeFailed, sinkOps>>

\* ESP_ERROR_CHECK(i2s_channel_disable(tx_handle))
Play_Disable ==
    /\ pc = "disable"
    /\ IF tx_handle # NULL /\ chState[tx_handle] = "running"
       THEN /\ chState' = [chState EXCEPT ![tx_handle] = "ready"]
            /\ sinkOps' = SinkOp(sinkOps, "disable")
            /\ pc' = "cleanup"
       ELSE /\ chState' = chState
            /\ sinkOps' = sinkOps
            /\ pc' = "aborted"
    /\ UNCHANGED <<playback_speed, speed_arg, startSpeed, tx_handle,
                   liveChans, ret, fileVars, headerVars, planVars, buf,
                   loopVars, sessChans, sinkRate, chunkVars, sinkVars>>

\* i2s_del_channel(tx_handle) succeeds on a channel that is not running;
\* tx_handle = NULL either way; free(buf); fclose(fh); return ESP_OK
Play_Cleanup ==
    /\ pc = "cleanup"
    /\ IF tx_handle # NULL /\ chState[tx_handle] # "running"
       THEN /\ liveChans' = liveChans \ {tx_handle}
            /\ chState' = [chState EXCEPT ![tx_handle] = "free"]
       ELSE UNCHANGED driverVars
    /\ sinkOps' = SinkOp(sinkOps, "destroy")
    /\ tx_handle' = NULL
    /\ buf' = <<>>
    /\ fhOpen' = FALSE
    /\ ret' = ESP_OK
    /\ pc' = "done"
    /\ UNCHANGED <<playback_speed, speed_arg, startSpeed, file, sd_ok, fhPos,
                   headerVars, planVars, loopVars, sessChans, sinkRate,
                   chunkVars, sinkVars>>

\* speaker_main has the result of play_wav and returns; the locals of the
\* call are gone
Play_Return ==
    /\ pc = "done"
    /\ pc' = "idle"
    /\ ret' = NO_RESULT
    /\ file' = NoFile
    /\ sd_ok' = FALSE
    /\ startSpeed' = NoArg
    /\ FreshLocals
    /\ UNCHANGED <<playback_speed, speed_arg, tx_handle, driverVars>>

\* abort() restarts the chip: statics, driver and task start over
Reboot ==
    /\ pc = "aborted"
    /\ playback_speed' = SPEED_DEFAULT
    /\ speed_arg' = NoArg
    /\ startSpeed' = NoArg
    /\ tx_handle' = NULL
    /\ liveChans' = {}
    /\ chState' = [c \in ChanIds |-> "free"]
    /\ pc' = "idle"
    /\ ret' = NO_RESULT
    /\ file' = NoFile
    /\ sd_ok' = FALSE
    /\ FreshLocals

Next ==
    \/ SetSpeed
    \/ Play_Call
    \/ Play_Open
    \/ Play_Header
    \/ Play_RatePlan
    \/ Play_Setup
    \/ Play_Alloc
    \/ Play_FirstRead
    \/ Play_Enable
    \/ Play_LoopTest
    \/ Play_DecimateStep
    \/ Play_DecimateDone
    \/ Play_Write
    \/ Play_NextRead
    \/ Play_Disable
    \/ Play_Cleanup
    \/ Play_Return
    \/ Reboot

Spec == Init /\ [][Next]_vars

\* a step of the task that is inside play_wav
PlayStep ==
    \/ Play_Open
    \/ Play_Header
    \/ Play_RatePlan
    \/ Play_Setup
    \/ Play_Alloc
    \/ Play_FirstRead
    \/ Play_Enable
    \/ Play_LoopTest
    \/ Play_DecimateStep
    \/ Play_DecimateDone
    \/ Play_Write
    \/ Play_NextRead
    \/ Play_Disable
    \/ Play_Cleanup

\* the task inside play_wav keeps running: the scheduler does not starve it
\* and every blocking call (fread, i2s_channel_write) returns
SpecLive == Init /\ [][Next]_vars /\ WF_vars(PlayStep)

\* the speed setter alone, over every argument
NextSpeed == SetAnySpeed

SpecSpeed == Init /\ [][NextSpeed]_vars

TypeOK ==
    /\ playback_speed.kind \in {"fin", "nan"}
    /\ tx_handle \in {NULL} \cup ChanIds
    /\ liveChans \subseteq ChanIds
    /\ pc \in {"idle", "open", "header", "plan", "setup", "alloc",
               "first_read", "enable", "loop", "decimate", "write", "read",
               "disable", "cleanup", "done", "aborted"}
    /\ bytes_read \in 0..AUDIO_BUFFER
    /\ Len(buf) <= AUDIO_BUFFER

(* ---------------------------------------------------------------------- *)
(* Claims                                                                  *)
(* ---------------------------------------------------------------------- *)
\* the outcomes of the specification as return values of play_wav
SourceUnavailable == ESP_ERR_INVALID_ARG
UnsupportedFormat == ESP_ERR_NOT_SUPPORTED
Returned == pc = "done"

\* C1: on every return of play_wav taken after the channel was created the
\* channel has been released (no channel held, tx_handle empty), so
\* i2s_setup is always entered with no channel outstanding and at most one
\* channel is ever live.
C1_ChannelReleasedOnEveryExit ==
    /\ (Returned /\ sessChans > 0) => (tx_handle = NULL /\ liveChans = {})
    /\ pc = "setup" => (tx_handle = NULL /\ liveChans = {})
    /\ Cardinality(liveChans) <= 1

\* the inputs of C2
OpenFails == sd_ok /\ ~file.exists
HeaderTruncated == sd_ok /\ file.exists /\ file.bytes < WAV_HEADER_BYTES
WrongDepth ==
    sd_ok /\ file.exists /\ file.bytes >= WAV_HEADER_BYTES /\ file.bits # 16
NothingConfigured == sessChans = 0 /\ ~planDone /\ sinkRate = 0

\* C2 as stated: a failed open returns the source-unavailable outcome, a
\* truncated header and a bit depth other than 16 both return the
\* unsupported-format outcome, and none of them creates a channel or
\* computes a rate plan.
C2_AsStated ==
    /\ (Returned /\ OpenFails) => ret = SourceUnavailable
    /\ (Returned /\ (HeaderTruncated \/ WrongDepth)) => ret = UnsupportedFormat
    /\ (OpenFails \/ HeaderTruncated \/ WrongDepth) => NothingConfigured

\* C2 amended: a failed open returns ESP_ERR_INVALID_ARG, a truncated
\* header returns the generic ESP_FAIL, a bit depth other than 16 returns
\* ESP_ERR_NOT_SUPPORTED, and in all of these calls no channel is created
\* and no rate plan is computed.
C2_EarlyFailures ==
    /\ (Returned /\ OpenFails) => ret = ESP_ERR_INVALID_ARG
    /\ (Returned /\ HeaderTruncated) => ret = ESP_FAIL
    /\ (Returned /\ WrongDepth) => ret = ESP_ERR_NOT_SUPPORTED
    /\ (OpenFails \/ HeaderTruncated \/ WrongDepth) => NothingConfigured

C2_Witness == Returned /\ WrongDepth /\ file.bits = 8 /\ ret = UnsupportedFormat

\* C3: when a sink write fails the loop stops at once (no further read or
\* write) and play_wav returns an error, not success.
C3_WriteFailureReported ==
    /\ ioAfterFail = 0
    /\ (Returned /\ writeFailed) => ret # ESP_OK

\* C4: the stored speed starts at 1.0 and stays within [0.25, 4.0] after
\* any sequence of set_playback_speed calls.
SpeedInRange(s) ==
    s.kind = "fin" /\ SPEED_MIN.v <= s.v /\ s.v <= SPEED_MAX.v

C4_SpeedAlwaysInRange == SpeedInRange(playback_speed)

RateInRange(r) == I2S_PDM_MIN_RATE <= r /\ r <= I2S_PDM_MAX_RATE

C6_RatePlanInRange ==
    /\ (planDone /\ SpeedInRange(planSpeed)) =>
          /\ RateInRange(adjusted_sample_rate)
          /\ frame_skip_ratio[1] >= 1
    /\ sinkRate # 0 => RateInRange(sinkRate)

C6_Witness ==
    /\ planDone
    /\ planSpeed = SPEED_MIN
    /\ sample_rate = 11025
    /\ adjusted_sample_rate = I2S_PDM_MIN_RATE
    /\ sinkRate = I2S_PDM_MIN_RATE

\* sampleRateHz * speed in sixteenths of a hertz
Desired16 == sample_rate * planSpeed.v

ClampRate(r) ==
    IF r > I2S_PDM_MAX_RATE THEN I2S_PDM_MAX_RATE
    ELSE IF r < I2S_PDM_MIN_RATE THEN I2S_PDM_MIN_RATE
    ELSE r

\* C7 as stated: the sink rate is clamp(round(sampleRateHz * speed), 8000,
\* 48000), the desired rate being rounded to the nearest integer.
C7_AsStated ==
    (planDone /\ SpeedInRange(planSpeed)) =>
        adjusted_sample_rate = ClampRate((2 * Desired16 + 16) \div 32)

\* C7 amended: the sink rate is clamp(trunc(sampleRateHz * speed), 8000,
\* 48000): the desired rate is truncated toward zero before clamping, i.e.
\* the rate is 48000 from 48001 Hz on, 8000 below 8000 Hz, and otherwise
\* the integer r with r <= sampleRateHz * speed < r + 1.
C7_TruncatedRate ==
    (planDone /\ SpeedInRange(planSpeed)) =>
        IF Desired16 >= 16 * (I2S_PDM_MAX_RATE + 1)
        THEN adjusted_sample_rate = I2S_PDM_MAX_RATE
        ELSE IF Desired16 < 16 * I2S_PDM_MIN_RATE
        THEN adjusted_sample_rate = I2S_PDM_MIN_RATE
        ELSE /\ 16 * adjusted_sample_rate <= Desired16
             /\ Desired16 < 16 * (adjusted_sample_rate + 1)

C7_Witness ==
    /\ planDone
    /\ sample_rate = 11025
    /\ planSpeed = Fin(24)
    /\ adjusted_sample_rate = 16537

\* r is the single-precision number nearest to num / (scale * 48000):
\* |num - scale * 48000 * r| is at most half a unit in the last place of r.
\* The difference is taken in units of 2^-16.
NearestF32(r, num, scale) ==
    LET Fh == r[2] \div 65536
        Fl == r[2] % 65536
        coarse == num - scale * (I2S_PDM_MAX_RATE * r[1] + 375 * Fh)
        E == coarse * 65536 - scale * 375 * Fl
        absE == IF E < 0 THEN -E ELSE E
    IN  /\ r[1] >= 1
        /\ 0 <= coarse
        /\ coarse <= scale * 376
        /\ 2 * absE <= scale * 375 * Pow2(BitLen(r[1]) - 1)

\* C8 as stated: the decimation ratio is the real sampleRateHz * speed
\* (unrounded) over 48000 when that desired rate exceeds 48000, and 1.0
\* otherwise.
C8_AsStated ==
    (planDone /\ SpeedInRange(planSpeed)) =>
        IF Desired16 > 16 * I2S_PDM_MAX_RATE
        THEN NearestF32(frame_skip_ratio, Desired16, 16)
        ELSE frame_skip_ratio = F32One

\* C8 amended: the decimation ratio is the single-precision quotient of
\* the truncated desired rate trunc(sampleRateHz * speed) by 48000 when the
\* truncated rate exceeds 48000, and exactly 1.0 otherwise (also below
\* 8000 Hz).
C8_TruncatedRatio ==
    (planDone /\ SpeedInRange(planSpeed)) =>
        IF Desired16 \div 16 > I2S_PDM_MAX_RATE
        THEN NearestF32(frame_skip_ratio, Desired16 \div 16, 1)
        ELSE frame_skip_ratio = F32One

C8_Witness ==
    /\ planDone
    /\ sample_rate = 44100
    /\ planSpeed = Fin(48)
    /\ adjusted_sample_rate = I2S_PDM_MAX_RATE
    /\ frame_skip_ratio = <<2, 6343884>>

\* s holds the first Len(s) payload samples, in order
IsPayloadPrefix(s) == \A k \in 1..Len(s) : s[k] = SampleAt(k - 1)

\* C9: at ratio 1.0 every chunk handed to the sink is the chunk read, so
\* the sink has received exactly the samples read so far after each write
\* and the whole payload, in order, when the session ends at end of stream.
C9_VerbatimAtUnitRatio ==
    (planDone /\ frame_skip_ratio = F32One) =>
        /\ IsPayloadPrefix(sinkData)
        /\ pc = "write" => bytes_read = chunkLen
        /\ pc = "read" => Len(sinkData) = fhPos
        /\ (Returned /\ ret = ESP_OK /\ ~writeFailed) =>
              Len(sinkData) = PayloadLen(file)

C9_Witness ==
    /\ Returned
    /\ ret = ESP_OK
    /\ ~writeFailed
    /\ planDone
    /\ frame_skip_ratio = F32One
    /\ Len(sinkData) = AUDIO_BUFFER + 1

\* k * r, exactly, for a ratio r and 0 <= k <= AUDIO_BUFFER + 2
MulFix(k, r) ==
    LET a == r[2] \div 4096
        b == r[2] % 4096
        q == (k * a) \div 2048
        fr == ((k * a) % 2048) * 4096 + k * b
    IN  <<k * r[1] + q + fr \div FRAC_ONE, fr % FRAC_ONE>>

\* C10: for a ratio r > 1.0 and a chunk of N samples the number W of
\* samples written satisfies floor(N / r) - 1 <= W <= floor(N / r) + 1,
\* i.e. (W - 1) * r <= N < (W + 2) * r, and 1 <= W <= N; the counters grow
\* by W and N - W, so together they count every sample read.
C10_ChunkCount ==
    (pc = "write" /\ F32GreaterOne(frame_skip_ratio)) =>
        LET N == samples_to_process
            W == bytes_read
            lo == MulFix(W - 1, frame_skip_ratio)
            hi == MulFix(W + 2, frame_skip_ratio)
        IN  /\ 1 <= W
            /\ W <= N
            /\ samples_played + samples_skipped = fhPos
            /\ lo[1] < N \/ (lo[1] = N /\ lo[2] = 0)
            /\ hi[1] > N \/ (hi[1] = N /\ hi[2] > 0)

\* the order of the driver operations of a session, with and without writes
SinkOrder ==
    <<"create", "configure", "enable", "write", "disable", "destroy">>
SinkOrderNoWrite == <<"create", "configure", "enable", "disable", "destroy">>

IsPrefix(s, full) == Len(s) <= Len(full) /\ s = SubSeq(full, 1, Len(s))

\* the channel of this session was created and configured
Configured == Len(sinkOps) >= 2 /\ sinkOps[2] = "configure"

\* writes lie between enable and disable, the operations follow the order,
\* and no payload sample is consumed before the channel is configured
SinkOpsInOrder ==
    /\ IsPrefix(sinkOps, SinkOrder) \/ IsPrefix(sinkOps, SinkOrderNoWrite)
    /\ (fhPos > 0 \/ chunkLen > 0 \/ Len(sinkData) > 0) => Configured
    /\ pc \in {"first_read", "enable", "loop", "decimate", "write", "read"}
          => Configured

\* i2s_new_channel or i2s_channel_init_pdm_tx_mode failed in this session
SetupFailed == pc = "aborted" /\ ~Configured

\* C11: the sink operations of a session occur in the order create/configure,
\* enable, zero or more writes, disable, destroy; no write happens before
\* enable or after disable; no payload chunk is read before the channel is
\* created and configured; and a creation/configuration failure ends the
\* session with an error outcome handed to the caller before any chunk is
\* read.
C11_SinkOrderAndSetupFailure ==
    /\ SinkOpsInOrder
    /\ SetupFailed => (fhPos = 0 /\ ret \notin {NO_RESULT, ESP_OK})

\* the chunk in buf is being or has been compacted
Decimating == F32GreaterOne(frame_skip_ratio)

\* the write cursor is not ahead of the read index, and the read index is
\* inside the chunk whenever a sample is copied
CursorBehindReadIndex ==
    pc = "decimate" =>
        /\ samples_to_write <= F32Trunc(frame_position)
        /\ samples_to_write <= samples_to_process
        /\ samples_to_process = chunkLen

\* the compacted chunk starts with the first sample of the chunk read
FirstSampleEmitted ==
    (pc = "write" /\ Decimating) =>
        /\ bytes_read >= 1
        /\ BufGet(buf, 0) = SampleAt(chunkStart)

\* sample k of the compacted chunk is sample floor(k * r) of the chunk read
SelectedByProduct ==
    (pc = "write" /\ Decimating) =>
        \A k \in 0..(bytes_read - 1) :
            LET src == MulFix(k, frame_skip_ratio)[1]
            IN  /\ src < chunkLen
                /\ BufGet(buf, k) = SampleAt(chunkStart + src)

\* C12: for every decimated chunk (ratio r > 1.0, N samples read) the k-th
\* sample handed to the sink is the original sample floor(k * r) of the
\* chunk for all 0 <= k < W; the write cursor never passes the read index
\* and no index >= N is accessed; the selection restarts at position 0 for
\* every chunk, so the first sample of every chunk is emitted.
C12_CompactionSelectsByRatio ==
    /\ SelectedByProduct
    /\ CursorBehindReadIndex
    /\ FirstSampleEmitted

\* the session is over: the loop was left, by end of stream or by a failed
\* write
SessionEnded == pc \in {"disable", "cleanup", "done"}

\* samples_played + samples_skipped is the number of samples the decimator
\* has consumed: all samples read, but for a chunk read and not yet
\* decimated
CountersCoverConsumed ==
    (planDone /\ Decimating) =>
        /\ pc \in {"write", "read"} =>
              samples_played + samples_skipped = fhPos
        /\ pc = "loop" => samples_played + samples_skipped = chunkStart
        /\ SessionEnded => samples_played + samples_skipped = fhPos

\* samples_played is the number of samples the sink accepted
PlayedIsAccepted ==
    (planDone /\ Decimating /\ (pc \in {"read", "loop"} \/ SessionEnded)) =>
        samples_played = Len(sinkData)

\* C13: in a decimating session (ratio > 1.0), at every chunk boundary and
\* when the session ends, also when it ends on a failed sink write,
\* samples_played is the number of samples the sink accepted and
\* samples_played + samples_skipped is the number of source samples the
\* decimator consumed (the two counters the skipped percentage is
\* reported from).
C13_CountersMatchSink ==
    /\ PlayedIsAccepted
    /\ CountersCoverConsumed

\* the rate plan of the session is the one computed from planSpeed, and the
\* channel runs at the rate of that plan
PlanFromPlanSpeed ==
    /\ planDone =>
          \E adjusted \in AdjustedRates(sample_rate, planSpeed) :
              /\ adjusted_sample_rate = SinkRate(adjusted)
              /\ frame_skip_ratio = SkipRatio(adjusted)
    /\ sinkRate # 0 => sinkRate = adjusted_sample_rate

\* the step that computes the plan reads the speed stored at that moment;
\* no later step of the session changes the plan or the channel's rate
PlanStep ==
    /\ (~planDone /\ planDone') => planSpeed' = playback_speed
    /\ (planDone /\ planDone') =>
          /\ planSpeed' = planSpeed
          /\ adjusted_sample_rate' = adjusted_sample_rate
          /\ frame_skip_ratio' = frame_skip_ratio
    /\ (sinkRate # 0 /\ sinkRate' # 0) => sinkRate' = sinkRate

InPlay == pc \notin {"idle", "done", "aborted"}

\* every call of play_wav returns
EveryCallReturns == InPlay ~> Returned

\* the frame skipping of a chunk comes to an end
DecimationTerminates == (pc = "decimate") ~> (pc = "write")

\* the loop is left only after a read of zero samples or a failed write, and
\* a session without a failed write has consumed the whole payload
LoopEndsAtEndOfStream ==
    /\ pc = "disable" => (writeFailed \/ (bytes_read = 0 /\ chunkLen = 0))
    /\ (SessionEnded /\ Configured /\ pc # "done" /\ ~writeFailed) =>
          fhPos = PayloadLen(file)
    /\ (Returned /\ ret = ESP_OK /\ ~writeFailed) => fhPos = PayloadLen(file)

\* C15: for a finite file and a sink whose every write returns, every call
\* of play_wav eventually returns; the frame skipping loop terminates for
\* every ratio > 1.0 and chunk size; the streaming loop ends only when a
\* read returns zero samples or a write fails, so a session without a
\* failed write consumes the whole file before it returns.
C15_EveryCallReturns ==
    /\ EveryCallReturns
    /\ DecimationTerminates
    /\ []LoopEndsAtEndOfStream

====
